---- MODULE Spec2Model ----
(***************************************************************************)
(* The main loop of run_sign_language_interpreter (src/src/app.py): the    *)
(* debounce of per-frame predictions over a deque of the last 5 labels,    *)
(* the confirmation of a stable label with its sound, and the sentence     *)
(* buffer edited by the key commands.                                      *)
(*                                                                         *)
(* One loop iteration is two steps: the frame step (pc = "frame": read the *)
(* camera, detect, classify, debounce) and the key step (pc = "key": poll  *)
(* the keyboard, apply the command, render, check the window).             *)
(***************************************************************************)
EXTENDS Integers, Sequences, FiniteSets, TLC

\* ------------------------------------------------------------- constants
MAX_SENTENCE_LENGTH == 30

\* deque(maxlen=5)
HISTORY_MAXLEN == 5

\* len(prediction_history) == 5
CONFIRM_RUN == 5

\* ---------------------------------------------------------------- bounds
\* Number of sentence-editing key commands (space, s, b) explored per run.
MaxCmds == 3

\* ----------------------------------------------------------------- types
\* Python's None (last_prediction before any confirmation / after accept).
None == "None"

\* The classifier's label alphabet: strings, one of them longer than one
\* character (model.predict returns whatever class names it was trained on).
Labels == {"A", "OK"}

\* A Python str as its sequence of characters.
Chars(label) ==
  CASE label = "A" -> <<"A">>
    [] label = "OK" -> <<"O", "K">>

Spaces(n) == [i \in 1..n |-> " "]

\* Sentences the session starts the exploration from: the constructed one
\* (sentence = "") and the ones reached from it by pressing 's'
\* MAX_SENTENCE_LENGTH - 1 or MAX_SENTENCE_LENGTH times with no hand in view.
StartSentences ==
  {<<>>, Spaces(MAX_SENTENCE_LENGTH - 1), Spaces(MAX_SENTENCE_LENGTH)}

MISMATCH_ERROR == "Error: Feature count mismatch or Multiple hands detected"
LIMIT_ERROR == "Error: Sentence length limit reached"

VARIABLES
  prediction_history,  \* deque(maxlen=5) of labels
  last_prediction,     \* last confirmed label or None
  sentence,            \* sequence of characters
  error_message,       \* "" or one of the two error strings
  pc,                  \* "frame" | "key" | "exited"
  exitReason,          \* why the loop ended: "none" | "camera" | "quit" | "window" | "exception"
  \* observations of the run (history variables, not program state)
  frameResult,         \* result of the latest frame: "none" | "ReadFailed" | "NoDetection" | "FeatureMismatch" | "Detected"
  predicted_label,     \* label of the latest Detected frame, else None
  confirmed,           \* label play_sound_for_prediction was called with in the latest frame step, else None
  sound,               \* what that call did: "none" | "missing" | "played" | "load_error"
  key,                 \* command of the latest key step: "none" | "accept" | "space" | "delete" | "quit"
  prevLen,             \* len(prediction_history) before the latest frame step
  runCount,            \* consecutive Detected(predicted_label) frames ending at the latest frame, capped at CONFIRM_RUN
  cleanRun,            \* as runCount, but of a run that began with an empty history and
                       \* last_prediction # label, with no key command since; 0 otherwise
  lastEvent,           \* label of the latest confirmation event not yet followed by an accept that cleared it
  cmds,                \* editing key commands issued so far
  interrupted,         \* a Detected frame with a label other than lastEvent was processed since that event
  superseded,          \* label of the confirmation event before lastEvent, with no clearing accept between them
  prevError,           \* error_message before the latest frame step ("" again after the key step)
  revival              \* <<stage, label>> of an accept rejected at the limit with label pending:
                       \* "rejected", then "deleted" by delete-last, then "appended" by accept; else "none"

vars == <<prediction_history, last_prediction, sentence, error_message, pc, exitReason,
          frameResult, predicted_label, confirmed, sound, key, prevLen, runCount,
          cleanRun, lastEvent, cmds, interrupted, superseded, prevError, revival>>

progVars == <<prediction_history, last_prediction, sentence, error_message>>

\* ------------------------------------------------------- pure operations
Min(a, b) == IF a < b THEN a ELSE b

\* The label pushed at the wrong end: deque.appendleft, which evicts the
\* newest entry when full.
DequeAppendLeft(h, l) ==
  IF Len(h) = HISTORY_MAXLEN THEN <<l>> \o SubSeq(h, 1, Len(h) - 1) ELSE <<l>> \o h

\* deque.append with maxlen: the oldest entry is evicted when full.
DequeAppend(h, l) ==
  IF Len(h) = HISTORY_MAXLEN THEN Append(Tail(h), l) ELSE Append(h, l)

\* all(p == predicted_label for p in prediction_history)
AllEqual(h, l) == \A i \in 1..Len(h) : h[i] = l

\* The condition of the confirmation without its test against the last
\* confirmed label.
ShouldConfirmIgnoresLast(h, l, last) ==
  /\ Len(h) = CONFIRM_RUN
  /\ AllEqual(h, l)

\* The condition of the confirmation with its length test off by one:
\* len(prediction_history) > 5, which a deque of maxlen 5 never meets.
ShouldConfirmAboveMaxlen(h, l, last) ==
  /\ Len(h) > CONFIRM_RUN
  /\ AllEqual(h, l)
  /\ l # last

\* The condition of the confirmation, evaluated after the append.
ShouldConfirm(h, l, last) ==
  /\ Len(h) = CONFIRM_RUN
  /\ AllEqual(h, l)
  /\ l # last

\* The length test off by one: len(sentence) <= MAX_SENTENCE_LENGTH.
UnderLimitInclusive(s) == Len(s) <= MAX_SENTENCE_LENGTH

\* len(sentence) < MAX_SENTENCE_LENGTH
UnderLimit(s) == Len(s) < MAX_SENTENCE_LENGTH

\* The slice taken at the wrong end: sentence[1:].
DropFirst(s) == IF Len(s) = 0 THEN <<>> ELSE Tail(s)

\* sentence[:-1]
DropLast(s) == IF Len(s) = 0 THEN <<>> ELSE SubSeq(s, 1, Len(s) - 1)

\* if last_prediction:  (None and "" are falsy)
Truthy(last) == last # None /\ Chars(last) # <<>>

\* The operands swapped: sentence = last_prediction + sentence.
ConcatFront(s, label) == Chars(label) \o s

\* sentence += last_prediction
Concat(s, label) == s \o Chars(label)

\* ----------------------------------------------- observation of the run
NoRevival == <<"none", None>>

\* The revival stage after a frame step: a confirmation ends it, and an
\* "appended" stage is only shown right after its accept.
RevivalAfterFrame(fire) ==
  IF fire \/ revival[1] = "appended" THEN NoRevival ELSE revival

\* What every frame step records whatever its result.
ObserveFrame(fire) ==
  /\ prevError' = error_message
  /\ revival' = RevivalAfterFrame(fire)

\* ------------------------------------------------------------------ Init
Init ==
  /\ prediction_history = <<>>
  /\ last_prediction = None
  /\ sentence \in StartSentences
  /\ error_message = ""
  /\ pc = "frame"
  /\ exitReason = "none"
  /\ frameResult = "none"
  /\ predicted_label = None
  /\ confirmed = None
  /\ sound = "none"
  /\ key = "none"
  /\ prevLen = 0
  /\ runCount = 0
  /\ cleanRun = 0
  /\ lastEvent = None
  /\ cmds = 0
  /\ interrupted = FALSE
  /\ superseded = None
  /\ prevError = ""
  /\ revival = NoRevival

\* ------------------------------------------------------------ frame step
\* A failed read that logs and goes on to the next iteration (continue
\* instead of break).
CameraReadRetries ==
  /\ pc = "frame"
  /\ pc' = "frame"
  /\ exitReason' = exitReason
  /\ frameResult' = "ReadFailed"
  /\ predicted_label' = None
  /\ confirmed' = None
  /\ sound' = "none"
  /\ key' = "none"
  /\ prevLen' = Len(prediction_history)
  /\ runCount' = 0
  /\ cleanRun' = 0
  /\ ObserveFrame(FALSE)
  /\ UNCHANGED <<progVars, lastEvent, cmds, interrupted, superseded>>

\* cap.read() fails: log and break, before any classification or key handling.
CameraReadFails ==
  /\ pc = "frame"
  /\ pc' = "exited"
  /\ exitReason' = "camera"
  /\ frameResult' = "ReadFailed"
  /\ predicted_label' = None
  /\ confirmed' = None
  /\ sound' = "none"
  /\ key' = "none"
  /\ prevLen' = Len(prediction_history)
  /\ runCount' = 0
  /\ cleanRun' = 0
  /\ ObserveFrame(FALSE)
  /\ UNCHANGED <<progVars, lastEvent, cmds, interrupted, superseded>>

\* results.multi_hand_landmarks is empty: the whole if-block is skipped.
NoDetection ==
  /\ pc = "frame"
  /\ pc' = "key"
  /\ frameResult' = "NoDetection"
  /\ predicted_label' = None
  /\ confirmed' = None
  /\ sound' = "none"
  /\ key' = "none"
  /\ prevLen' = Len(prediction_history)
  /\ runCount' = 0
  /\ cleanRun' = 0
  /\ ObserveFrame(FALSE)
  /\ UNCHANGED <<progVars, exitReason, lastEvent, cmds, interrupted, superseded>>

\* The mismatch branch without its prediction_history.clear().
FeatureMismatchKeepsHistory ==
  /\ pc = "frame"
  /\ pc' = "key"
  /\ error_message' = MISMATCH_ERROR
  /\ frameResult' = "FeatureMismatch"
  /\ predicted_label' = None
  /\ confirmed' = None
  /\ sound' = "none"
  /\ key' = "none"
  /\ prevLen' = Len(prediction_history)
  /\ runCount' = 0
  /\ cleanRun' = 0
  /\ ObserveFrame(FALSE)
  /\ UNCHANGED <<prediction_history, last_prediction, sentence, exitReason,
                 lastEvent, cmds, interrupted, superseded>>

\* A hand was found but len(data_aux) # model.n_features_in_.
FeatureMismatch ==
  /\ pc = "frame"
  /\ pc' = "key"
  /\ error_message' = MISMATCH_ERROR
  /\ prediction_history' = <<>>
  /\ frameResult' = "FeatureMismatch"
  /\ predicted_label' = None
  /\ confirmed' = None
  /\ sound' = "none"
  /\ key' = "none"
  /\ prevLen' = Len(prediction_history)
  /\ runCount' = 0
  /\ cleanRun' = 0
  /\ ObserveFrame(FALSE)
  /\ UNCHANGED <<last_prediction, sentence, exitReason, lastEvent, cmds, interrupted,
                 superseded>>

\* play_sound_for_prediction: the file is missing (warning), or it is there
\* and pygame.mixer.Sound(file) loads it and a daemon thread plays it, or it
\* is there and pygame.mixer.Sound(file) raises in the calling thread, or it
\* loads and Sound.play raises in the daemon thread, which the loop never
\* joins.
SoundOutcomes == {"missing", "played", "load_error", "play_error"}

\* Lines 105-112: append the label, and when the window holds 5 entries all
\* equal to it and it is not the last confirmed one, play its sound, record
\* it as confirmed and clear the window.
Debounce(l, snd) ==
  LET h1 == DequeAppend(prediction_history, l)
      fire == ShouldConfirm(h1, l, last_prediction)
  IN
  /\ (snd = "none") <=> ~fire
  /\ confirmed' = IF fire THEN l ELSE None
  /\ sound' = snd
  /\ lastEvent' = IF fire THEN l ELSE lastEvent
  /\ superseded' = IF fire THEN lastEvent ELSE superseded
  /\ interrupted' = IF fire THEN FALSE
                    ELSE interrupted \/ (lastEvent # None /\ l # lastEvent)
  /\ ObserveFrame(fire)
  /\ IF fire /\ snd = "load_error"
       THEN \* the exception leaves line 110 for the except clause of line 167
            /\ prediction_history' = h1
            /\ last_prediction' = last_prediction
            /\ pc' = "exited"
            /\ exitReason' = "exception"
       ELSE /\ prediction_history' = IF fire THEN <<>> ELSE h1
            /\ last_prediction' = IF fire THEN l ELSE last_prediction
            /\ pc' = "key"
            /\ exitReason' = exitReason

\* The run counters of the frame results, advanced by a Detected(l) frame.
ObserveDetected(l) ==
  LET sameRun == frameResult = "Detected" /\ predicted_label = l IN
  /\ frameResult' = "Detected"
  /\ predicted_label' = l
  /\ key' = "none"
  /\ prevLen' = Len(prediction_history)
  /\ runCount' = IF sameRun THEN Min(runCount + 1, CONFIRM_RUN) ELSE 1
  /\ cleanRun' = IF sameRun /\ cleanRun \in 1..(CONFIRM_RUN - 1) THEN cleanRun + 1
                 ELSE IF prediction_history = <<>> /\ last_prediction # l THEN 1
                 ELSE 0

\* The frame step appending a confirmed label to the sentence by itself.
DetectedAppends(l, snd) ==
  /\ pc = "frame"
  /\ error_message' = ""
  /\ Debounce(l, snd)
  /\ ObserveDetected(l)
  /\ sentence' = IF confirmed' = l THEN Concat(sentence, l) ELSE sentence
  /\ UNCHANGED cmds

\* The frame step without line 84 (error_message = "").
DetectedKeepsError(l, snd) ==
  /\ pc = "frame"
  /\ Debounce(l, snd)
  /\ ObserveDetected(l)
  /\ UNCHANGED <<error_message, sentence, cmds>>

\* A hand was found, the feature count matches, the model predicts label l.
Detected(l, snd) ==
  /\ pc = "frame"
  /\ error_message' = ""
  /\ Debounce(l, snd)
  /\ ObserveDetected(l)
  /\ UNCHANGED <<sentence, cmds>>

\* -------------------------------------------------------------- key step
\* The rest of the iteration after the key handling: render, then break when
\* the window is no longer visible.
EndIteration(visible) ==
  /\ pc' = IF visible THEN "frame" ELSE "exited"
  /\ exitReason' = IF visible THEN exitReason ELSE "window"

KeyObserved(k) ==
  /\ key' = k
  /\ prevError' = ""
  /\ UNCHANGED <<frameResult, predicted_label, confirmed, sound, prevLen, runCount>>

\* No key, or a key that is none of the commands.
NoKey(visible) ==
  /\ pc = "key"
  /\ KeyObserved("none")
  /\ EndIteration(visible)
  /\ UNCHANGED <<progVars, cleanRun, lastEvent, cmds, interrupted, superseded, revival>>

\* The revival stage after an accept: rejected at the limit with a label
\* pending, or the accept that follows the delete-last of a rejected one.
RevivalAfterAccept ==
  IF Len(sentence) = MAX_SENTENCE_LENGTH /\ last_prediction \in Labels
    THEN <<"rejected", last_prediction>>
    ELSE IF revival[1] = "deleted" THEN <<"appended", revival[2]>> ELSE NoRevival

\* The accept with lines 132-133 outside both tests: last_prediction and the
\* history are reset whatever the length and whether or not a label is pending.
AcceptSymbolAlwaysClears(visible) ==
  /\ pc = "key"
  /\ cmds < MaxCmds
  /\ cmds' = cmds + 1
  /\ KeyObserved("accept")
  /\ cleanRun' = 0
  /\ IF UnderLimit(sentence)
       THEN IF Truthy(last_prediction)
              THEN /\ sentence' = Concat(sentence, last_prediction)
                   /\ UNCHANGED error_message
              ELSE UNCHANGED <<sentence, error_message>>
       ELSE /\ error_message' = LIMIT_ERROR
            /\ UNCHANGED sentence
  /\ last_prediction' = None
  /\ prediction_history' = <<>>
  /\ lastEvent' = None
  /\ superseded' = None
  /\ interrupted' = FALSE
  /\ revival' = RevivalAfterAccept
  /\ EndIteration(visible)

\* key == ord(' ')
AcceptSymbol(visible) ==
  /\ pc = "key"
  /\ cmds < MaxCmds
  /\ cmds' = cmds + 1
  /\ KeyObserved("accept")
  /\ cleanRun' = 0
  /\ IF UnderLimit(sentence)
       THEN IF Truthy(last_prediction)
              THEN /\ sentence' = Concat(sentence, last_prediction)
                   /\ last_prediction' = None
                   /\ prediction_history' = <<>>
                   /\ lastEvent' = None
                   /\ superseded' = None
                   /\ interrupted' = FALSE
                   /\ UNCHANGED error_message
              ELSE UNCHANGED <<progVars, lastEvent, superseded, interrupted>>
       ELSE /\ error_message' = LIMIT_ERROR
            /\ UNCHANGED <<prediction_history, last_prediction, sentence, lastEvent,
                           superseded, interrupted>>
  /\ revival' = RevivalAfterAccept
  /\ EndIteration(visible)

\* The append-space clearing the error message as delete-last does.
AppendSpaceClearsError(visible) ==
  /\ pc = "key"
  /\ cmds < MaxCmds
  /\ cmds' = cmds + 1
  /\ KeyObserved("space")
  /\ cleanRun' = 0
  /\ IF UnderLimit(sentence)
       THEN /\ sentence' = Append(sentence, " ")
            /\ error_message' = ""
       ELSE /\ error_message' = LIMIT_ERROR
            /\ UNCHANGED sentence
  /\ revival' = NoRevival
  /\ UNCHANGED <<prediction_history, last_prediction, lastEvent, interrupted, superseded>>
  /\ EndIteration(visible)

\* key == ord('s') or key == ord('S')
AppendSpace(visible) ==
  /\ pc = "key"
  /\ cmds < MaxCmds
  /\ cmds' = cmds + 1
  /\ KeyObserved("space")
  /\ cleanRun' = 0
  /\ IF UnderLimit(sentence)
       THEN /\ sentence' = Append(sentence, " ")
            /\ UNCHANGED error_message
       ELSE /\ error_message' = LIMIT_ERROR
            /\ UNCHANGED sentence
  /\ revival' = NoRevival
  /\ UNCHANGED <<prediction_history, last_prediction, lastEvent, interrupted, superseded>>
  /\ EndIteration(visible)

\* key == ord('b') or key == ord('B')
DeleteLast(visible) ==
  /\ pc = "key"
  /\ cmds < MaxCmds
  /\ cmds' = cmds + 1
  /\ KeyObserved("delete")
  /\ cleanRun' = 0
  /\ sentence' = DropLast(sentence)
  /\ error_message' = ""
  /\ revival' = IF revival[1] = "rejected" THEN <<"deleted", revival[2]>> ELSE NoRevival
  /\ UNCHANGED <<prediction_history, last_prediction, lastEvent, interrupted, superseded>>
  /\ EndIteration(visible)

\* key == ord('q') or key == ord('Q')
Quit ==
  /\ pc = "key"
  /\ KeyObserved("quit")
  /\ pc' = "exited"
  /\ exitReason' = "quit"
  /\ UNCHANGED <<progVars, cleanRun, lastEvent, cmds, interrupted, superseded, revival>>

Next ==
  \/ CameraReadFails
  \/ NoDetection
  \/ FeatureMismatch
  \/ \E l \in Labels, snd \in SoundOutcomes \cup {"none"} : Detected(l, snd)
  \/ \E visible \in BOOLEAN : NoKey(visible)
  \/ \E visible \in BOOLEAN : AcceptSymbol(visible)
  \/ \E visible \in BOOLEAN : AppendSpace(visible)
  \/ \E visible \in BOOLEAN : DeleteLast(visible)
  \/ Quit

Spec == Init /\ [][Next]_vars

\* ================================================================ claims
FiveOf(l) == [i \in 1..CONFIRM_RUN |-> l]

\* C1: from an empty history and with last_prediction # L, five consecutive
\* Detected(L) frames with no key command in between fire no confirmation on
\* the first four and one on the fifth, after which last_prediction = L and
\* the history is empty.
C1_FifthFrameConfirms ==
  /\ cleanRun \in 1..(CONFIRM_RUN - 1) => confirmed = None
  /\ cleanRun = CONFIRM_RUN =>
       /\ confirmed = predicted_label
       /\ last_prediction = predicted_label
       /\ prediction_history = <<>>

\* C2: a confirmation event for L never follows a confirmation event for L
\* without an accept that cleared last_prediction or a confirmation of another
\* label in between; while last_prediction = L no frame confirms L.
C2_NoDoubleConfirmation ==
  [][\A l \in Labels :
       (pc = "frame" /\ confirmed' = l) => (lastEvent # l /\ last_prediction # l)]_vars

\* A held pose: L is the last confirmed label and the window holds another
\* five L, with no confirmation fired by the latest frame.
C2_Witness ==
  /\ pc = "key"
  /\ last_prediction = "A"
  /\ lastEvent = "A"
  /\ prediction_history = FiveOf("A")
  /\ runCount = CONFIRM_RUN
  /\ confirmed = None

\* C3: after a frame step whose result is NoDetection the history is empty.
C3_NoDetectionClearsHistory ==
  (pc = "key" /\ frameResult = "NoDetection") => prediction_history = <<>>

\* C4: a confirmation for L fires only on a frame that ends five consecutive
\* Detected(L) frame results.
C4_ConfirmationNeedsFiveConsecutive ==
  confirmed # None => (predicted_label = confirmed /\ runCount = CONFIRM_RUN)

\* C5: a FeatureMismatch frame leaves the history empty whatever it held,
\* sets the mismatch error message and goes on to the key handling.
C5_MismatchClearsHistory ==
  [][(pc = "frame" /\ frameResult' = "FeatureMismatch") =>
       /\ prediction_history' = <<>>
       /\ error_message' = MISMATCH_ERROR
       /\ pc' = "key"
       /\ exitReason' = "none"]_vars

\* A mismatch frame that met a full history.
C5_Witness ==
  /\ pc = "key"
  /\ frameResult = "FeatureMismatch"
  /\ prevLen = HISTORY_MAXLEN
  /\ prediction_history = <<>>
  /\ error_message = MISMATCH_ERROR

\* C6: the sentence never holds more than MAX_SENTENCE_LENGTH characters.
C6_SentenceBounded == Len(sentence) <= MAX_SENTENCE_LENGTH

\* C7: at len(sentence) = MAX_SENTENCE_LENGTH, accept and append-space leave
\* the sentence unchanged and set the length-limit error, whether or not
\* last_prediction is set.
C7_FullSentenceRejects ==
  [][(pc = "key" /\ Len(sentence) = MAX_SENTENCE_LENGTH /\ key' \in {"accept", "space"}) =>
       /\ sentence' = sentence
       /\ error_message' = LIMIT_ERROR]_vars

\* An accept rejected at the limit while a confirmed label is pending.
C7_Witness ==
  /\ key = "accept"
  /\ cmds = 1
  /\ sentence = Spaces(MAX_SENTENCE_LENGTH)
  /\ last_prediction = "A"
  /\ error_message = LIMIT_ERROR

\* C8: accept with last_prediction = L and len(sentence) < MAX_SENTENCE_LENGTH
\* appends the characters of L to the sentence, resets last_prediction to
\* None and empties the history.
C8_AcceptAppends ==
  [][\A l \in Labels :
       (pc = "key" /\ key' = "accept" /\ last_prediction = l
          /\ Len(sentence) < MAX_SENTENCE_LENGTH) =>
         /\ Len(sentence') = Len(sentence) + Len(Chars(l))
         /\ SubSeq(sentence', 1, Len(sentence)) = sentence
         /\ SubSeq(sentence', Len(sentence) + 1, Len(sentence')) = Chars(l)
         /\ last_prediction' = None
         /\ prediction_history' = <<>>]_vars

\* The scenario: "A" confirmed from the constructed state, then accepted.
C8_Witness ==
  /\ key = "accept"
  /\ cmds = 1
  /\ sentence = <<"A">>
  /\ predicted_label = "A"
  /\ runCount = CONFIRM_RUN
  /\ last_prediction = None
  /\ prediction_history = <<>>

\* C9: delete-last removes exactly the last character of a non-empty
\* sentence and leaves an empty one empty; it empties the error message,
\* leaves last_prediction and the history alone and does not end the loop by
\* itself.
C9_DeleteLast ==
  [][(pc = "key" /\ key' = "delete") =>
       /\ Len(sentence') = (IF Len(sentence) = 0 THEN 0 ELSE Len(sentence) - 1)
       /\ \A i \in 1..Len(sentence') : sentence'[i] = sentence[i]
       /\ error_message' = ""
       /\ last_prediction' = last_prediction
       /\ prediction_history' = prediction_history
       /\ exitReason' \in {"none", "window"}]_vars

\* Delete-last on the empty sentence in the iteration whose frame set the
\* mismatch error, with a confirmed label pending.
C9_Witness ==
  /\ key = "delete"
  /\ cmds = 1
  /\ sentence = <<>>
  /\ frameResult = "FeatureMismatch"
  /\ error_message = ""
  /\ last_prediction = "A"

\* C10: no frame step changes the sentence; it changes only in the accept,
\* append-space and delete-last key steps.
C10_FramePathKeepsSentence ==
  [][/\ pc = "frame" => sentence' = sentence
     /\ sentence' # sentence => (pc = "key" /\ key' \in {"accept", "space", "delete"})]_vars

\* A frame that confirmed a label while the sentence held an accepted one.
C10_Witness ==
  /\ pc = "key"
  /\ confirmed = "OK"
  /\ last_prediction = "OK"
  /\ sentence = <<"A">>
\* C11: a confirmation whose sound is missing, fails to load or fails to
\* play still sets last_prediction, empties the history and lets the loop go
\* on to the key handling.
C11_SoundFailureHarmless ==
  (/\ confirmed # None
   /\ sound \in {"missing", "load_error", "play_error"}
   /\ (pc = "key" \/ exitReason = "exception")) =>
    /\ pc = "key"
    /\ last_prediction = confirmed
    /\ prediction_history = <<>>

\* C12: a failed camera read ends the loop before any classification or key
\* handling, the quit key ends it too, and after either nothing is updated
\* again.
C12_ReadFailureAndQuitTerminate ==
  [][/\ (pc = "frame" /\ frameResult' = "ReadFailed") =>
          (pc' = "exited" /\ exitReason' = "camera" /\ key' = "none" /\ UNCHANGED progVars)
     /\ (pc = "key" /\ key' = "quit") =>
          (pc' = "exited" /\ exitReason' = "quit" /\ UNCHANGED progVars)
     /\ frameResult = "ReadFailed" => UNCHANGED vars
     /\ exitReason \in {"camera", "quit"} => UNCHANGED vars]_vars

\* The loop ended by a failed read while a history was accumulated.
C12_Witness ==
  /\ pc = "exited"
  /\ exitReason = "camera"
  /\ frameResult = "ReadFailed"
  /\ prediction_history = <<"A", "A", "A", "A">>
  /\ last_prediction = "OK"

\* The fifth frame of a run of Detected(l) frames, met while l is the last
\* confirmed label and another label was detected since its confirmation.
FifthOfRunAfterOther(l) ==
  /\ pc = "frame"
  /\ frameResult' = "Detected"
  /\ predicted_label' = l
  /\ runCount = CONFIRM_RUN - 1
  /\ runCount' = CONFIRM_RUN
  /\ lastEvent = l
  /\ last_prediction = l
  /\ interrupted

\* C13 as stated: after L was confirmed and another label was detected, a run
\* of five Detected(L) frames confirms L again, with no accept and no
\* confirmation of the other label in between.
C13_RearmedByOtherLabel ==
  [][\A l \in Labels : FifthOfRunAfterOther(l) => confirmed' = l]_vars

\* C13 amended: in that case the run of five Detected(L) frames does not
\* confirm L again and last_prediction stays L.
C13_NotRearmedByOtherLabel ==
  [][\A l \in Labels :
       FifthOfRunAfterOther(l) => (confirmed' = None /\ last_prediction' = l)]_vars

\* "A" confirmed, "OK" seen, then a window of five "A" again without a
\* confirmation.
C13_Witness ==
  /\ pc = "key"
  /\ interrupted
  /\ lastEvent = "A"
  /\ last_prediction = "A"
  /\ predicted_label = "A"
  /\ runCount = CONFIRM_RUN
  /\ prevLen = HISTORY_MAXLEN
  /\ prediction_history = FiveOf("A")
  /\ confirmed = None

\* C14: append-space below the limit appends exactly one space and leaves
\* the error message, last_prediction and the history unchanged.
C14_AppendSpace ==
  [][(pc = "key" /\ key' = "space" /\ Len(sentence) < MAX_SENTENCE_LENGTH) =>
       /\ Len(sentence') = Len(sentence) + 1
       /\ SubSeq(sentence', 1, Len(sentence)) = sentence
       /\ sentence'[Len(sentence')] = " "
       /\ error_message' = error_message
       /\ last_prediction' = last_prediction
       /\ prediction_history' = prediction_history]_vars

\* A space appended to the empty sentence while the mismatch error shows
\* and a confirmed label is pending.
C14_Witness ==
  /\ key = "space"
  /\ cmds = 1
  /\ sentence = <<" ">>
  /\ error_message = MISMATCH_ERROR
  /\ last_prediction = "A"

\* C15: right after the frame step of a Detected frame the error message is
\* empty, whatever it was before.
C15_DetectionClearsError ==
  (frameResult = "Detected" /\ (pc = "key" \/ exitReason = "exception")) =>
    error_message = ""

\* A Detected frame that met the length-limit error.
C15_Witness ==
  /\ pc = "key"
  /\ frameResult = "Detected"
  /\ prevError = LIMIT_ERROR
  /\ error_message = ""

\* C16: a Detected(L) frame fires a confirmation exactly when the history
\* with L appended (the oldest entry evicted beyond 5) holds 5 entries all
\* equal to L and L is not last_prediction.
C16_SlidingWindow ==
  [][(pc = "frame" /\ frameResult' = "Detected") =>
       LET l == predicted_label'
           n == Len(prediction_history)
           window == [i \in 1..(IF n < HISTORY_MAXLEN THEN n + 1 ELSE HISTORY_MAXLEN) |->
                        IF n < HISTORY_MAXLEN
                          THEN (IF i <= n THEN prediction_history[i] ELSE l)
                          ELSE (IF i < HISTORY_MAXLEN THEN prediction_history[i + 1] ELSE l)]
       IN  (confirmed' = l) <=>
             /\ Len(window) = 5
             /\ \A i \in 1..Len(window) : window[i] = l
             /\ l # last_prediction]_vars

\* The first confirmation of "A", fired by a frame that met a full history:
\* its oldest entry was not "A" and was evicted.
C16_Witness ==
  /\ pc = "key"
  /\ confirmed = "A"
  /\ prevLen = HISTORY_MAXLEN
  /\ runCount = CONFIRM_RUN
  /\ last_prediction = "A"
  /\ superseded = None

\* C17: accept with no label pending and the sentence below the limit
\* changes neither the sentence, the history, last_prediction nor the error
\* message.
C17_AcceptWithoutPending ==
  [][(pc = "key" /\ key' = "accept" /\ last_prediction = None
        /\ Len(sentence) < MAX_SENTENCE_LENGTH) =>
       /\ sentence' = sentence
       /\ prediction_history' = prediction_history
       /\ last_prediction' = None
       /\ error_message' = error_message]_vars

\* An accept with nothing pending that met an accumulated history.
C17_Witness ==
  /\ key = "accept"
  /\ cmds = 1
  /\ sentence = <<>>
  /\ last_prediction = None
  /\ lastEvent = None
  /\ prediction_history = <<"A", "A", "A", "A">>
  /\ error_message = ""

\* C18: between iterations the history holds at most 5 entries, and when it
\* holds 5 equal entries their label is last_prediction.
C18_FullWindowIsConfirmed ==
  pc = "frame" =>
    /\ Len(prediction_history) <= 5
    /\ \A l \in Labels : prediction_history = FiveOf(l) => last_prediction = l

\* A full unanimous history between iterations.
C18_Witness ==
  /\ pc = "frame"
  /\ prediction_history = FiveOf("OK")
  /\ last_prediction = "OK"

\* C19: an accept rejected at the limit leaves last_prediction and the
\* history unchanged, and the accept that follows a delete-last then appends
\* that label and resets last_prediction.
C19_PendingSurvivesRejection ==
  [][/\ (pc = "key" /\ key' = "accept" /\ Len(sentence) = MAX_SENTENCE_LENGTH
           /\ last_prediction \in Labels) =>
          /\ last_prediction' = last_prediction
          /\ prediction_history' = prediction_history
          /\ sentence' = sentence
     /\ (pc = "key" /\ key' = "accept" /\ revival[1] = "deleted") =>
          /\ Len(sentence') = Len(sentence) + Len(Chars(revival[2]))
          /\ SubSeq(sentence', 1, Len(sentence)) = sentence
          /\ SubSeq(sentence', Len(sentence) + 1, Len(sentence')) = Chars(revival[2])
          /\ last_prediction' = None]_vars

\* "A" rejected at 30 characters, one character deleted, "A" accepted.
C19_Witness ==
  /\ key = "accept"
  /\ revival = <<"appended", "A">>
  /\ sentence = Append(Spaces(MAX_SENTENCE_LENGTH - 1), "A")
  /\ last_prediction = None

\* C20: when a confirmation of M follows a confirmation of another label L
\* with no accept in between, last_prediction = M.
C20_LatestConfirmationPending ==
  superseded # None => (lastEvent # superseded /\ last_prediction = lastEvent)
====
